---- MODULE Spec2Model ----
(***************************************************************************)
(* Model of the salt runner module modules/runners/citools.py:             *)
(*   _determine_pillar_changes  the recursive pillar diff                  *)
(*   _remove_unchanged_pillar   the in-place pruning of a diff             *)
(*   validate_pillar_pr         fetch every minion's pillar, diff, prune   *)
(*   validate_state_pr          fetch every minion's lowstate ids, set-diff*)
(*                                                                         *)
(* A python value is a record [tag, val, kids]:                            *)
(*   tag = "leaf"    a scalar, val is its value                            *)
(*   tag = "branch"  a dict, kids is the mapping key -> value              *)
(*   tag = "added" | "removed" | "modified" | "unchanged"                  *)
(*                   the marker strings the diff writes                    *)
(*   tag = "none"    no object                                             *)
(*   tag = "raised"  (operator results only) the call raised an exception  *)
(* Dict objects that the code passes around by reference live in heap,     *)
(* which maps an object's address to its current contents.                 *)
(***************************************************************************)
EXTENDS Integers, Sequences, FiniteSets, TLC

VARIABLES
    op,                         \* the entry point that was called
    minion_ids,                 \* its minion_ids argument
    pc,                         \* position in the entry point's code
    idx,                        \* position of the for loop in minion_ids
    target_pillar_content,      \* validate_pillar_pr local
    incoming_pillar_content,    \* validate_pillar_pr local
    heap,                       \* contents of the dict objects
    compared_pillar,            \* address held by compared_pillar
    changes,                    \* address held by changes (the return value)
    target_lowstate_content,    \* validate_state_pr local
    incoming_lowstate_content,  \* validate_state_pr local
    lowstate_changes,           \* validate_state_pr result dict
    fetches,                    \* history: the get_*_for_env calls made
    computed                    \* history: the diffs computed, with the
                                \*   number of fetches completed before each

vars == <<op, minion_ids, pc, idx, target_pillar_content,
          incoming_pillar_content, heap, compared_pillar, changes,
          target_lowstate_content, incoming_lowstate_content,
          lowstate_changes, fetches, computed>>

----------------------------------------------------------------------------
(* Bounds and input alphabets *)

MaxNodes == 4       \* nodes of a tree handed directly to the diff
MaxHosts == 2       \* length of minion_ids
MaxPlanLen == 2     \* length of a fetched lowstate id list

Keys == {"a", "b"}          \* pillar field names
Vals == {1, 2}              \* scalar pillar values
Hosts == {"h1", "h2"}       \* minion ids
PlanIds == {"s1", "s2"}     \* lowstate ids

----------------------------------------------------------------------------
(* Python values *)

NoKids == [k \in {} |-> 0]

Leaf(v) == [tag |-> "leaf", val |-> v, kids |-> NoKids]

Branch(f) == [tag |-> "branch", val |-> 0, kids |-> f]

Mark(m) == [tag |-> m, val |-> 0, kids |-> NoKids]

None == Mark("none")

Raised == Mark("raised")

EmptyDict == Branch(NoKids)

\* isinstance(x, dict)
IsDict(x) == x.tag = "branch"

\* d[k] = v on a dict value
SetItem(d, k, v) ==
    Branch([x \in (DOMAIN d.kids) \cup {k} |-> IF x = k THEN v ELSE d.kids[x]])

----------------------------------------------------------------------------
(* Input trees: every pillar tree over Keys and Vals with exactly n nodes *)

RECURSIVE TreesOfSize(_)
RECURSIVE KidMaps(_, _)

\* the mappings from a subset of S to trees whose node counts sum to m
KidMaps(S, m) ==
    IF S = {} THEN (IF m = 0 THEN {NoKids} ELSE {})
    ELSE LET k == CHOOSE x \in S : TRUE
             rest == S \ {k}
         IN  KidMaps(rest, m) \cup
             UNION { { [x \in (DOMAIN g) \cup {k} |-> IF x = k THEN t ELSE g[x]]
                       : t \in TreesOfSize(j), g \in KidMaps(rest, m - j) }
                     : j \in 1..m }

TreesOfSize(n) ==
    IF n < 1 THEN {}
    ELSE (IF n = 1 THEN {Leaf(v) : v \in Vals} ELSE {}) \cup
         {Branch(f) : f \in KidMaps(Keys, n - 1)}

\* the dicts of at most n nodes
DictsUpTo(n) == {t \in UNION {TreesOfSize(j) : j \in 1..n} : IsDict(t)}

\* the pillars the fetch of one minion in one environment may render
PillarSamples ==
    { EmptyDict,
      Branch([k \in {"a"} |-> Leaf(1)]),
      Branch([k \in {"a"} |-> Leaf(2)]),
      Branch([k \in {"a"} |-> EmptyDict]),
      Branch([k \in {"a"} |-> Branch([j \in {"b"} |-> Leaf(1)])]) }

RECURSIVE SeqsUpTo(_, _)
SeqsUpTo(S, n) ==
    IF n = 0 THEN {<<>>}
    ELSE LET shorter == SeqsUpTo(S, n - 1)
         IN  shorter \cup {Append(s, x) : s \in shorter, x \in S}

----------------------------------------------------------------------------
(* _determine_pillar_changes *)

\* line 173: a key of target that incoming lacks
RemovedEntry == Mark("removed")

\* the comparison of line 186 with == for !=
LeafEntryInverted(tv, iv) ==
    IF tv = iv THEN Mark("modified") ELSE Mark("unchanged")

\* lines 186-190: a key of both whose target value is no dict
LeafEntry(tv, iv) == IF tv # iv THEN Mark("modified") ELSE Mark("unchanged")

\* lines 193-199 without the isinstance branch of lines 194-197
AddedEntryFlat(iv) == Mark("added")

\* lines 193-199: a key of incoming that target lacks
AddedEntry(iv) ==
    IF IsDict(iv)
    THEN Branch([sub_key \in DOMAIN iv.kids |-> Mark("added")])
    ELSE Mark("added")

RECURSIVE _determine_pillar_changes(_, _)
\* target_pillarenv is a dict.  With an incoming_pillarenv that is no dict the
\* call raises: incoming_pillarenv.keys() (line 192) does not exist, if the
\* membership test or the subscript of lines 172-181 did not raise before.
_determine_pillar_changes(target_pillarenv, incoming_pillarenv) ==
    IF ~IsDict(incoming_pillarenv) THEN Raised
    ELSE LET tk == DOMAIN target_pillarenv.kids
             ik == DOMAIN incoming_pillarenv.kids
             entry(key) ==
                 IF key \notin ik THEN RemovedEntry
                 ELSE IF key \notin tk THEN AddedEntry(incoming_pillarenv.kids[key])
                 ELSE IF IsDict(target_pillarenv.kids[key])
                      THEN _determine_pillar_changes(target_pillarenv.kids[key],
                                                     incoming_pillarenv.kids[key])
                      ELSE LeafEntry(target_pillarenv.kids[key],
                                     incoming_pillarenv.kids[key])
             result == [key \in tk \cup ik |-> entry(key)]
         IN  IF \E key \in tk \cup ik : result[key] = Raised
             THEN Raised
             ELSE Branch(result)

----------------------------------------------------------------------------
(* _remove_unchanged_pillar *)

\* lines 220-225: TRUE for a key that is not put in keys_to_remove; pruned is
\* the value after the recursive call has worked on it
KeepKey(pruned) ==
    IF IsDict(pruned) THEN pruned.kids # NoKids ELSE pruned.tag # "unchanged"

RECURSIVE _remove_unchanged_pillar(_)
\* the contents of the object data after the call (which returns data itself)
_remove_unchanged_pillar(data) ==
    IF IsDict(data)
    THEN LET after == [key \in DOMAIN data.kids |->
                          _remove_unchanged_pillar(data.kids[key])]
             kept == {key \in DOMAIN data.kids : KeepKey(after[key])}
         IN  Branch([key \in kept |-> after[key]])
    ELSE data

----------------------------------------------------------------------------
(* The two entry points, and the direct call of the two helpers *)

\* lines 328-329: the addresses of the dicts target_pillar and incoming_pillar
target_pillar == 1

incoming_pillar == 2

\* the minion id of the running loop iteration (lines 331, 349)
Id == minion_ids[idx]

\* where the for loop goes with its index at i: into the body, or past the
\* loop to line 338 (validate_pillar_pr) or to the return of line 364
LoopPc(i) ==
    IF i <= Len(minion_ids) THEN "fetch_target"
    ELSE IF op = "validate_state_pr" THEN "returned" ELSE "diff"

FetchRecord(env, ok) == [id |-> Id, env |-> env, ok |-> ok]

\* the fetch wrapped in a try statement whose handler goes on with the next
\* minion
FetchSkipped(env) ==
    /\ pc' = LoopPc(idx + 1)
    /\ idx' = idx + 1
    /\ fetches' = Append(fetches, FetchRecord(env, FALSE))
    /\ UNCHANGED <<op, minion_ids, target_pillar_content,
                   incoming_pillar_content, heap, compared_pillar, changes,
                   target_lowstate_content, incoming_lowstate_content,
                   lowstate_changes, computed>>

\* get_pillar_for_env / get_lowstate_for_env raises: neither entry point has a
\* try statement, so the exception leaves the entry point
FetchRaises(env) ==
    /\ pc' = "raised"
    /\ fetches' = Append(fetches, FetchRecord(env, FALSE))
    /\ UNCHANGED <<op, minion_ids, idx, target_pillar_content,
                   incoming_pillar_content, heap, compared_pillar, changes,
                   target_lowstate_content, incoming_lowstate_content,
                   lowstate_changes, computed>>

\* line 332
FetchTargetPillar ==
    /\ op = "validate_pillar_pr"
    /\ pc = "fetch_target"
    /\ \/ \E p \in PillarSamples :
            /\ target_pillar_content' = p
            /\ pc' = "fetch_incoming"
            /\ fetches' = Append(fetches, FetchRecord("target", TRUE))
            /\ UNCHANGED <<op, minion_ids, idx, incoming_pillar_content, heap,
                           compared_pillar, changes, target_lowstate_content,
                           incoming_lowstate_content, lowstate_changes,
                           computed>>
       \/ FetchRaises("target")

\* lines 333-336, and the loop header of line 331
FetchIncomingPillar ==
    /\ op = "validate_pillar_pr"
    /\ pc = "fetch_incoming"
    /\ \/ \E p \in PillarSamples :
            /\ incoming_pillar_content' = p
            /\ heap' = [heap EXCEPT
                   ![target_pillar] = SetItem(@, Id, target_pillar_content),
                   ![incoming_pillar] = SetItem(@, Id, p)]
            /\ idx' = idx + 1
            /\ pc' = LoopPc(idx + 1)
            /\ fetches' = Append(fetches, FetchRecord("incoming", TRUE))
            /\ UNCHANGED <<op, minion_ids, target_pillar_content,
                           compared_pillar, changes, target_lowstate_content,
                           incoming_lowstate_content, lowstate_changes,
                           computed>>
       \/ FetchRaises("incoming")

\* line 338: the diff builds its result in a new dict and writes to no other
DiffCall(h) ==
    LET r == _determine_pillar_changes(h[target_pillar], h[incoming_pillar])
    IN  IF r = Raised
        THEN [heap |-> h, ret |-> 0, raised |-> TRUE]
        ELSE [heap |-> Append(h, r), ret |-> Len(h) + 1, raised |-> FALSE]

Diff ==
    /\ pc = "diff"
    /\ LET c == DiffCall(heap)
       IN  /\ heap' = c.heap
           /\ compared_pillar' = c.ret
           /\ pc' = IF c.raised THEN "raised" ELSE "prune"
    /\ computed' = Append(computed, Len(fetches))
    /\ UNCHANGED <<op, minion_ids, idx, target_pillar_content,
                   incoming_pillar_content, changes, target_lowstate_content,
                   incoming_lowstate_content, lowstate_changes, fetches>>

\* the pruning as a fold that builds a new dict and leaves data alone
RemoveCallCopying(h, a) ==
    [heap |-> Append(h, _remove_unchanged_pillar(h[a])), ret |-> Len(h) + 1]

\* lines 217-228: the call deletes keys from the dict at address a, and from
\* the dicts nested in it, and returns a itself
RemoveCall(h, a) ==
    [heap |-> [h EXCEPT ![a] = _remove_unchanged_pillar(h[a])], ret |-> a]

\* lines 339-340
Prune ==
    /\ pc = "prune"
    /\ LET c == RemoveCall(heap, compared_pillar)
       IN  /\ heap' = c.heap
           /\ changes' = c.ret
    /\ pc' = "returned"
    /\ UNCHANGED <<op, minion_ids, idx, target_pillar_content,
                   incoming_pillar_content, compared_pillar,
                   target_lowstate_content, incoming_lowstate_content,
                   lowstate_changes, fetches, computed>>

\* line 350
FetchTargetLowstate ==
    /\ op = "validate_state_pr"
    /\ pc = "fetch_target"
    /\ \/ \E ids \in SeqsUpTo(PlanIds, MaxPlanLen) :
            /\ target_lowstate_content' = ids
            /\ pc' = "fetch_incoming"
            /\ fetches' = Append(fetches, FetchRecord("target", TRUE))
            /\ UNCHANGED <<op, minion_ids, idx, target_pillar_content,
                           incoming_pillar_content, heap, compared_pillar,
                           changes, incoming_lowstate_content,
                           lowstate_changes, computed>>
       \/ FetchRaises("target")

\* line 351
FetchIncomingLowstate ==
    /\ op = "validate_state_pr"
    /\ pc = "fetch_incoming"
    /\ \/ \E ids \in SeqsUpTo(PlanIds, MaxPlanLen) :
            /\ incoming_lowstate_content' = ids
            /\ pc' = "set_diff"
            /\ fetches' = Append(fetches, FetchRecord("incoming", TRUE))
            /\ UNCHANGED <<op, minion_ids, idx, target_pillar_content,
                           incoming_pillar_content, heap, compared_pillar,
                           changes, target_lowstate_content, lowstate_changes,
                           computed>>
       \/ FetchRaises("incoming")

\* set(l)
SetOf(l) == {l[n] : n \in 1..Len(l)}

\* list(s): the elements of s, each once, in an order the set's hashing picks
ListsOf(s) ==
    {l \in SeqsUpTo(s, Cardinality(s)) : Len(l) = Cardinality(s) /\ SetOf(l) = s}

\* line 353 with its operands swapped
StateIdsAddedSwapped(target, incoming) == SetOf(target) \ SetOf(incoming)

\* line 353
StateIdsAdded(target, incoming) == SetOf(incoming) \ SetOf(target)

\* lines 354-356
StateIdsRemoved(target, incoming) == SetOf(target) \ SetOf(incoming)

\* lines 358-362: the dict stored for one minion, given the two lists
HostChanges(added, removed) ==
    [k \in (IF Len(added) > 0 THEN {"added"} ELSE {}) \cup
           (IF Len(removed) > 0 THEN {"removed"} ELSE {})
       |-> IF k = "added" THEN added ELSE removed]

\* line 358 moved under the two if statements: a minion without changes
\* gets no entry
StoreChangesIfAny(lc, id, entry) ==
    IF entry = NoKids THEN lc
    ELSE [h \in (DOMAIN lc) \cup {id} |-> IF h = id THEN entry ELSE lc[h]]

\* lines 358-362: lowstate_changes after the store for minion id
StoreChanges(lc, id, entry) ==
    [h \in (DOMAIN lc) \cup {id} |-> IF h = id THEN entry ELSE lc[h]]

\* lines 353-362, and the loop header of line 349
SetDiff ==
    /\ pc = "set_diff"
    /\ \E added \in ListsOf(StateIdsAdded(target_lowstate_content,
                                          incoming_lowstate_content)),
          removed \in ListsOf(StateIdsRemoved(target_lowstate_content,
                                              incoming_lowstate_content)) :
          lowstate_changes' =
              StoreChanges(lowstate_changes, Id, HostChanges(added, removed))
    /\ computed' = Append(computed, Len(fetches))
    /\ idx' = idx + 1
    /\ pc' = LoopPc(idx + 1)
    /\ UNCHANGED <<op, minion_ids, target_pillar_content,
                   incoming_pillar_content, heap, compared_pillar, changes,
                   target_lowstate_content, incoming_lowstate_content,
                   fetches>>

\* the state at the first statement of the for loop of an entry point
\* (validate_pillar_pr lines 328-331, validate_state_pr lines 347-349)
InitValidate ==
    /\ op \in {"validate_pillar_pr", "validate_state_pr"}
    /\ minion_ids \in SeqsUpTo(Hosts, MaxHosts)
    /\ pc = LoopPc(1)
    /\ heap = IF op = "validate_pillar_pr" THEN <<EmptyDict, EmptyDict>> ELSE <<>>

\* _determine_pillar_changes called on two dicts (line 338 with any two
\* dicts for arguments), _remove_unchanged_pillar then called on its result
InitHelpers ==
    /\ op = "helpers"
    /\ minion_ids = <<>>
    /\ pc = "diff"
    /\ \E t \in DictsUpTo(MaxNodes), i \in DictsUpTo(MaxNodes) : heap = <<t, i>>

Init ==
    /\ (InitValidate \/ InitHelpers)
    /\ idx = 1
    /\ target_pillar_content = None
    /\ incoming_pillar_content = None
    /\ compared_pillar = 0
    /\ changes = 0
    /\ target_lowstate_content = <<>>
    /\ incoming_lowstate_content = <<>>
    /\ lowstate_changes = NoKids
    /\ fetches = <<>>
    /\ computed = <<>>

Next ==
    \/ FetchTargetPillar
    \/ FetchIncomingPillar
    \/ Diff
    \/ Prune
    \/ FetchTargetLowstate
    \/ FetchIncomingLowstate
    \/ SetDiff

Spec == Init /\ [][Next]_vars

----------------------------------------------------------------------------
(* Properties of the diff and of the pruning *)

\* the two dicts the diff of line 338 is called on
Target == heap[target_pillar]

Incoming == heap[incoming_pillar]

\* the diff of line 338 has been called
DiffCalled == op # "validate_state_pr" /\ Len(computed) > 0

\* the diff of line 338 has returned and its result is not yet pruned
DiffReturned == op # "validate_state_pr" /\ pc = "prune"

\* the dict the diff returned (pruned in place once pc = "returned")
Compared == heap[compared_pillar]

\* the subtree t with "added" in the place of every leaf
RECURSIVE AllAdded(_)
AllAdded(t) ==
    IF IsDict(t)
    THEN Branch([k \in DOMAIN t.kids |-> AllAdded(t.kids[k])])
    ELSE Mark("added")

\* d, the diff of the dicts t and i, reports every dict that only i has, at
\* this level and below, as that dict with "added" for each leaf
RECURSIVE NewSubtreesMarked(_, _, _)
NewSubtreesMarked(t, i, d) ==
    \A k \in DOMAIN i.kids :
        IF k \notin DOMAIN t.kids
        THEN IsDict(i.kids[k]) => d.kids[k] = AllAdded(i.kids[k])
        ELSE (IsDict(t.kids[k]) /\ IsDict(i.kids[k]))
                 => NewSubtreesMarked(t.kids[k], i.kids[k], d.kids[k])

\* C1: once the diff has returned, every field that only incoming has and
\* whose value is a dict is reported as a dict of the same nested shape with
\* "added" at every leaf position, at any depth below the new key.
C1_NewSubtreeMarkedAtEveryDepth ==
    DiffReturned => NewSubtreesMarked(Target, Incoming, Compared)

\* d, the diff of the dicts t and i, classifies every field of both of which
\* one side at least is no dict by equality, at this level and below
RECURSIVE LeafPairsCompared(_, _, _)
LeafPairsCompared(t, i, d) ==
    \A k \in (DOMAIN t.kids) \cap (DOMAIN i.kids) :
        IF IsDict(t.kids[k]) /\ IsDict(i.kids[k])
        THEN LeafPairsCompared(t.kids[k], i.kids[k], d.kids[k])
        ELSE d.kids[k] = IF t.kids[k] # i.kids[k]
                         THEN Mark("modified") ELSE Mark("unchanged")

\* C2: a call of the diff does not end in an error, and every field present
\* on both sides of which one side at least is a leaf (a type change in
\* either direction included) is "modified" when the two values differ and
\* "unchanged" when they are equal.
C2_TypeChangeIsModified ==
    DiffCalled =>
        /\ pc # "raised"
        /\ (pc = "prune" => LeafPairsCompared(Target, Incoming, Compared))

\* C3: the diff of a tree with itself does not raise and prunes to the empty
\* dict; a key (a minion of validate_pillar_pr) whose target and incoming
\* values are equal is absent from the pruned result.
C3_SelfDiffPrunesToEmpty ==
    /\ (DiffCalled /\ Target = Incoming) => pc # "raised"
    /\ (op # "validate_state_pr" /\ pc = "returned") =>
          /\ Target = Incoming => heap[changes] = EmptyDict
          /\ \A h \in (DOMAIN Target.kids) \cap (DOMAIN Incoming.kids) :
                 Target.kids[h] = Incoming.kids[h]
                     => h \notin DOMAIN heap[changes].kids

\* validate_pillar_pr has returned a report that omits a minion whose two
\* pillars are the same nested, non-empty tree and holds another minion
C3_Witness ==
    /\ op = "validate_pillar_pr"
    /\ pc = "returned"
    /\ \E h \in DOMAIN Target.kids :
          /\ Target.kids[h] = Incoming.kids[h]
          /\ \E k \in DOMAIN Target.kids[h].kids :
                 /\ IsDict(Target.kids[h].kids[k])
                 /\ Target.kids[h].kids[k].kids # NoKids
          /\ h \notin DOMAIN heap[changes].kids
    /\ heap[changes] # EmptyDict

\* the keys of the dict d that hold the marker m
KeysMarked(d, m) == {k \in DOMAIN d.kids : d.kids[k].tag = m}

\* the diff with its arguments swapped
Reverse == _determine_pillar_changes(Incoming, Target)

\* d and r mirror each other: at every level where both are dicts the keys
\* "removed" in d are the keys "added" in r, and the other way round
RECURSIVE Mirrored(_, _)
Mirrored(d, r) ==
    /\ KeysMarked(d, "removed") = KeysMarked(r, "added")
    /\ KeysMarked(d, "added") = KeysMarked(r, "removed")
    /\ \A k \in (DOMAIN d.kids) \cap (DOMAIN r.kids) :
           (IsDict(d.kids[k]) /\ IsDict(r.kids[k]))
               => Mirrored(d.kids[k], r.kids[k])

RECURSIVE MirroredLeaves(_, _, _, _)
MirroredLeaves(d, r, t, i) ==
    /\ KeysMarked(r, "added") =
           {k \in KeysMarked(d, "removed") : ~IsDict(t.kids[k])}
    /\ KeysMarked(d, "added") =
           {k \in KeysMarked(r, "removed") : ~IsDict(i.kids[k])}
    /\ \A k \in KeysMarked(d, "removed") :
           IsDict(t.kids[k]) =>
               r.kids[k] = Branch([s \in DOMAIN t.kids[k].kids |-> Mark("added")])
    /\ \A k \in KeysMarked(r, "removed") :
           IsDict(i.kids[k]) =>
               d.kids[k] = Branch([s \in DOMAIN i.kids[k].kids |-> Mark("added")])
    /\ \A k \in (DOMAIN t.kids) \cap (DOMAIN i.kids) :
           (IsDict(d.kids[k]) /\ IsDict(r.kids[k]))
               => MirroredLeaves(d.kids[k], r.kids[k], t.kids[k], i.kids[k])

C10_EveryDifferenceReported ==
    (op # "validate_state_pr" /\ pc = "returned") =>
        /\ heap[changes] = EmptyDict => Target = Incoming
        /\ \A h \in (DOMAIN Target.kids) \cap (DOMAIN Incoming.kids) :
               Target.kids[h] # Incoming.kids[h]
                   => h \in DOMAIN heap[changes].kids

----------------------------------------------------------------------------
(* Properties of the two entry points *)

\* the minion whose set difference was stored last, once one was
LastId == minion_ids[idx - 1]

\* validate_state_pr has just stored the dict of a minion (lines 358-362)
Stored ==
    /\ op = "validate_state_pr"
    /\ idx > 1
    /\ pc \in {"fetch_target", "returned"}

\* C5: the dict stored for a minion has "added" iff some incoming id is no
\* target id and "removed" iff some target id is no incoming id; "added"
\* lists exactly the incoming ids that are no target ids, "removed" exactly
\* the target ids that are no incoming ids, each once, whatever the order
\* and the repetitions of the two fetched lists; equal sets give {}.
C5_SetDifference ==
    Stored =>
        LET e == lowstate_changes[LastId]
            t == {target_lowstate_content[n] :
                      n \in 1..Len(target_lowstate_content)}
            i == {incoming_lowstate_content[n] :
                      n \in 1..Len(incoming_lowstate_content)}
        IN  /\ "added" \in DOMAIN e <=> (i \ t) # {}
            /\ "removed" \in DOMAIN e <=> (t \ i) # {}
            /\ DOMAIN e \subseteq {"added", "removed"}
            /\ "added" \in DOMAIN e =>
                   /\ {e.added[n] : n \in 1..Len(e.added)} = i \ t
                   /\ Len(e.added) = Cardinality(i \ t)
            /\ "removed" \in DOMAIN e =>
                   /\ {e.removed[n] : n \in 1..Len(e.removed)} = t \ i
                   /\ Len(e.removed) = Cardinality(t \ i)
            /\ t = i => e = NoKids

\* a dict with both keys was stored from two lists that repeat an id
C5_Witness ==
    /\ Stored
    /\ DOMAIN lowstate_changes[LastId] = {"added", "removed"}
    /\ Len(target_lowstate_content) = 2
    /\ target_lowstate_content[1] = target_lowstate_content[2]
    /\ Len(incoming_lowstate_content) = 2
    /\ incoming_lowstate_content[1] = incoming_lowstate_content[2]

\* C6: the keys of the mapping validate_state_pr returns are exactly the
\* requested minion ids, a minion with equal plan sets included.
C6_EveryHostInStateReport ==
    (op = "validate_state_pr" /\ pc = "returned") =>
        DOMAIN lowstate_changes = {minion_ids[n] : n \in 1..Len(minion_ids)}

\* validate_state_pr has returned for two minions, one with {} for value
C6_Witness ==
    /\ op = "validate_state_pr"
    /\ pc = "returned"
    /\ Cardinality(DOMAIN lowstate_changes) = 2
    /\ \E h \in DOMAIN lowstate_changes : lowstate_changes[h] = NoKids
    /\ \E h \in DOMAIN lowstate_changes : lowstate_changes[h] # NoKids

\* C7: a fetch that fails is the last fetch made (no later fetch, no second
\* try) and leaves the entry point in its error state, which returns nothing.
C7_FailFast ==
    \A n \in 1..Len(fetches) :
        ~fetches[n].ok => (n = Len(fetches) /\ pc = "raised")

\* a fetch has failed after the fetches of an earlier minion succeeded
C7_Witness ==
    /\ pc = "raised"
    /\ Len(fetches) >= 3
    /\ ~fetches[Len(fetches)].ok
    /\ fetches[1].ok

\* C8: in both entry points no diff is computed before both fetches of every
\* requested minion have completed, and a run whose fetches have all
\* completed does not end in an error.
C8_TwoPhasePipeline ==
    op \in {"validate_pillar_pr", "validate_state_pr"} =>
        /\ \A n \in 1..Len(computed) : computed[n] = 2 * Len(minion_ids)
        /\ pc = "raised" =>
               (Len(fetches) > 0 /\ ~fetches[Len(fetches)].ok)

====
